---- MODULE Spec2Model ----
(***************************************************************************)
(* Model of the output masker of secrethub-cli: the masker stream          *)
(* (stream.Write, stream.addMatch, stream.flush) and its IndexedBuffer.    *)
(*                                                                         *)
(* A byte is a one-character string, a byte slice a sequence of bytes.     *)
(* Offsets are the zero-based indices of the Go code.                      *)
(***************************************************************************)
EXTENDS Integers, Sequences, FiniteSets, TLC

VARIABLES
    scenario,      \* which known secrets the stream was built with, and what is written
    written,       \* every byte handed to the matcher so far (its stream position)
    buffer,        \* IndexedBuffer.buffer: the bytes not yet consumed
    currentIndex,  \* IndexedBuffer.currentIndex
    matches,       \* stream.matches: start offset -> length
    frames,        \* frames registered with the masker and not flushed yet
    dest,          \* the calls made to dest.Write, oldest first
    plain,         \* history: stream offsets of the buffered bytes delivered to dest
    registered,    \* history: sizes of all frames ever registered
    interleaved,   \* history: a Write happened after a flush
    late,          \* history: a match was reported after its frame had been flushed
    last,          \* history: the last stream operation and the state it started in
    bufCall,       \* history: the last direct call of an IndexedBuffer method
    bufPrev,       \* history: the direct IndexedBuffer call before bufCall
    conc,          \* the goroutines of a Write and a flush that run at the same time
    reader,        \* the bufferedSecretReader
    acct,          \* a run of AccountInitCommand.createAccountKey
    failed         \* history: where each flush that returned an error stopped

vars == <<scenario, written, buffer, currentIndex, matches, frames, dest, plain,
          registered, interleaved, late, last, bufCall, bufPrev, conc, reader, acct, failed>>

----------------------------------------------------------------------------
(* Bounds of the model. *)

\* total number of bytes written to a stream in the free scenario
MaxTotal == 5
\* largest slice passed to one Write in the free scenario
MaxChunk == 2
\* total number of bytes written while a Write and a flush run at the same time
MaxConcTotal == 4
\* a destination fails at its first to MaxFailAt-th Write call of a flush, or not
MaxFailAt == 3
\* total number of bytes written to a stream whose destination may fail
MaxFailTotal == 4
\* number of ReadSecret calls on one bufferedSecretReader
MaxReads == 4
\* total number of bytes written to an IndexedBuffer that is used on its own
MaxBufTotal == 3
\* how far above MaxBufTotal the index of a direct UpToIndex call may lie
MaxOver == 2

----------------------------------------------------------------------------
(* Byte slices. *)

Min(a, b) == IF a < b THEN a ELSE b

\* p[from:to] of Go, zero-based and half-open
Slice(p, from, to) == SubSeq(p, from + 1, to)

RECURSIVE Flatten(_)
Flatten(ss) == IF ss = <<>> THEN <<>> ELSE Head(ss) \o Flatten(Tail(ss))

RECURSIVE Sum(_)
Sum(ns) == IF ns = <<>> THEN 0 ELSE Head(ns) + Sum(Tail(ns))

\* needle occurs in hay at the zero-based offset i
OccursAt(hay, needle, i) ==
    /\ i + Len(needle) <= Len(hay)
    /\ Slice(hay, i, i + Len(needle)) = needle

Contains(hay, needle) == \E i \in 0..Len(hay) : OccursAt(hay, needle, i)

\* the offsets from, from+1, ..., to-1 as a sequence
Offsets(from, to) == [k \in 1..(to - from) |-> from + k - 1]

RedactionText ==
    <<"<", "r", "e", "d", "a", "c", "t", "e", "d", " ", "b", "y", " ",
      "S", "e", "c", "r", "e", "t", "H", "u", "b", ">">>

----------------------------------------------------------------------------
(* Scenarios: the known secrets and the writes made on the stream. *)

Sekrit == <<"s", "e", "k", "r", "i", "t">>
Token123 == <<"t", "o", "k", "e", "n", "1", "2", "3">>
SecretAB == <<"a", "b">>
SecretBA == <<"b", "a">>

SekritWrites ==
    << <<"b", "e", "f", "o", "r", "e", " ">>,
       <<"s", "e", "k">>,
       <<"r", "i", "t", " ", "a", "f", "t", "e", "r">> >>

Scenarios == {"free", "overlap", "sekrit", "token123"}

Secrets(sc) ==
    CASE sc = "free" -> {SecretAB}
      [] sc = "overlap" -> {SecretAB, SecretBA}
      [] sc = "sekrit" -> {Sekrit}
      [] sc = "token123" -> {Token123}

FreeChunks == UNION {[1..k -> {"a", "b"}] : k \in 0..MaxChunk}

\* the slices the producer may pass to the next Write
Chunks(sc, w) ==
    CASE sc \in {"free", "overlap"} ->
            {p \in FreeChunks : Len(w) + Len(p) <= MaxTotal}
      [] sc = "sekrit" ->
            {SekritWrites[k] : k \in {j \in 1..3 :
                Len(w) = Sum([i \in 1..(j - 1) |-> Len(SekritWrites[i])])}}
      [] sc = "token123" ->
            IF Len(w) >= Len(Token123) THEN {}
            ELSE IF Len(w) > 0 THEN {Slice(Token123, Len(w), Len(Token123))}
            ELSE {Slice(Token123, 0, k) : k \in 0..Len(Token123)}

----------------------------------------------------------------------------
(* IndexedBuffer.  A buffer value is [buffer, currentIndex]. *)

\* bytes.Buffer.Next(n): the next n bytes, or the whole buffer when it holds fewer
BufferNext(bytes, n) ==
    [ret  |-> Slice(bytes, 0, Min(n, Len(bytes))),
     rest |-> Slice(bytes, Min(n, Len(bytes)), Len(bytes))]

BufferWrite(b, p) ==
    [b |-> [b EXCEPT !.buffer = b.buffer \o p], n |-> Len(p), panic |-> FALSE]

\* UpToIndex that pops the bytes and forgets to move currentIndex
UpToIndexKeepsIndex(b, index) ==
    IF index < b.currentIndex
    THEN [b |-> b, ret |-> <<>>, panic |-> FALSE]
    ELSE LET nx == BufferNext(b.buffer, index - b.currentIndex)
         IN  [b     |-> [buffer |-> nx.rest, currentIndex |-> b.currentIndex],
              ret   |-> nx.ret,
              panic |-> FALSE]

UpToIndex(b, index) ==
    IF index < b.currentIndex
    THEN [b |-> b, ret |-> <<>>, panic |-> FALSE]
    ELSE LET nx == BufferNext(b.buffer, index - b.currentIndex)
         IN  [b     |-> [buffer |-> nx.rest, currentIndex |-> index],
              ret   |-> nx.ret,
              panic |-> FALSE]

----------------------------------------------------------------------------
(* The matcher and the match map. *)

\* multipleMatcher.Write: the occurrences of a known secret that end inside p,
\* each at its start offset in the whole stream
MatcherWrite(secrets, fed, p) ==
    {m \in (0..(Len(fed) + Len(p))) \X {Len(s) : s \in secrets} :
        /\ m[1] + m[2] > Len(fed)
        /\ \E s \in secrets : Len(s) = m[2] /\ OccursAt(fed \o p, s, m[1])}

\* Matches.Add
MatchesAdd(ms, index, length) ==
    [i \in DOMAIN ms \cup {index} |-> IF i = index THEN length ELSE ms[i]]

\* delete(s.matches, i)
MatchesDelete(ms, index) == [i \in DOMAIN ms \ {index} |-> ms[i]]

\* addMatch that records the match without looking at the current index
addMatchUnchecked(s, index, length) ==
    [s EXCEPT !.matches = MatchesAdd(s.matches, index, length)]

\* stream.addMatch on the stream value s
addMatch(s, index, length) ==
    IF index >= s.buf.currentIndex
    THEN [s EXCEPT !.matches = MatchesAdd(s.matches, index, length)]
    ELSE s

RECURSIVE addMatches(_, _)
addMatches(s, ms) ==
    IF ms = {} THEN s
    ELSE LET m == CHOOSE x \in ms : \A y \in ms : x[1] <= y[1]
         IN  addMatches(addMatch(s, m[1], m[2]), ms \ {m})

----------------------------------------------------------------------------
(* stream.  A stream value is                                              *)
(*   [buf, matches, dest, plain, total, nw, failAt, err]                   *)
(* where total is the number of bytes ever written, nw counts the          *)
(* dest.Write calls of the running flush and failAt is the call of that    *)
(* flush the destination fails (0: none).                                  *)

\* s.dest.Write(data); offs are the stream offsets of data (none for the marker)
destWrite(s, data, offs) ==
    IF s.nw + 1 = s.failAt
    THEN [s EXCEPT !.nw = s.nw + 1, !.err = TRUE]
    ELSE [s EXCEPT !.nw = s.nw + 1,
                   !.dest = Append(s.dest, data),
                   !.plain = s.plain \o offs]

\* the stream offset of the oldest byte that is still in the buffer
HeadOffset(s) == s.total - Len(s.buf.buffer)

\* flushMatch that writes the marker only after bytes that precede the match
flushMatchNoFirst(s, i) ==
    LET length == s.matches[i]
        r1 == UpToIndex(s.buf, i)
        w1 == destWrite([s EXCEPT !.buf = r1.b], r1.ret,
                        Offsets(HeadOffset(s), HeadOffset(s) + Len(r1.ret)))
    IN  IF w1.err THEN w1
        ELSE LET w2 == IF Len(r1.ret) > 0
                       THEN destWrite(w1, RedactionText, <<>>)
                       ELSE w1
             IN  IF w2.err THEN w2
                 ELSE [w2 EXCEPT !.buf = UpToIndex(w2.buf, i + length).b,
                                 !.matches = MatchesDelete(w2.matches, i)]

\* the body of flush's loop for an offset i that has a match
flushMatch(s, i) ==
    LET length == s.matches[i]
        r1 == UpToIndex(s.buf, i)
        w1 == destWrite([s EXCEPT !.buf = r1.b], r1.ret,
                        Offsets(HeadOffset(s), HeadOffset(s) + Len(r1.ret)))
    IN  IF w1.err THEN w1
        ELSE LET w2 == IF Len(r1.ret) > 0 \/ w1.buf.currentIndex = 0
                       THEN destWrite(w1, RedactionText, <<>>)
                       ELSE w1
             IN  IF w2.err THEN w2
                 ELSE [w2 EXCEPT !.buf = UpToIndex(w2.buf, i + length).b,
                                 !.matches = MatchesDelete(w2.matches, i)]

\* flushLoop that masks only the matches that end inside the flushed frame
RECURSIVE flushLoopInFrame(_, _, _)
flushLoopInFrame(s, i, endIndex) ==
    IF i >= endIndex \/ s.err THEN s
    ELSE IF i \in DOMAIN s.matches /\ i + s.matches[i] <= endIndex
         THEN flushLoopInFrame(flushMatch(s, i), i + 1, endIndex)
         ELSE flushLoopInFrame(s, i + 1, endIndex)

RECURSIVE flushLoop(_, _, _)
flushLoop(s, i, endIndex) ==
    IF i >= endIndex \/ s.err THEN s
    ELSE IF i \in DOMAIN s.matches
         THEN flushLoop(flushMatch(s, i), i + 1, endIndex)
         ELSE flushLoop(s, i + 1, endIndex)

\* flush that makes its trailing write even after a failed write in the loop
flushKeepsWriting(s, n) ==
    LET startIndex == s.buf.currentIndex
        endIndex == startIndex + n
        s1 == flushLoop(s, startIndex, endIndex)
        r == UpToIndex(s1.buf, endIndex)
    IN  destWrite([s1 EXCEPT !.buf = r.b], r.ret,
                  Offsets(HeadOffset(s1), HeadOffset(s1) + Len(r.ret)))

flush(s, n) ==
    LET startIndex == s.buf.currentIndex
        endIndex == startIndex + n
        s1 == flushLoop(s, startIndex, endIndex)
    IN  IF s1.err THEN s1
        ELSE LET r == UpToIndex(s1.buf, endIndex)
             IN  destWrite([s1 EXCEPT !.buf = r.b], r.ret,
                           Offsets(HeadOffset(s1), HeadOffset(s1) + Len(r.ret)))

\* the frames of the masker after "if n > 0 { s.registerFrame(s, n) }"
registerFrameAlways(fr, n) == Append(fr, n)

registerFrame(fr, n) == IF n > 0 THEN Append(fr, n) ELSE fr

\* stream.Write without the frame registration, which the action does
streamWrite(s, secrets, fed, p) ==
    LET w == BufferWrite(s.buf, p)
    IN  addMatches([s EXCEPT !.buf = w.b, !.total = s.total + w.n],
                   MatcherWrite(secrets, fed, Slice(p, 0, w.n)))

\* the stream value of the current state, about to run a flush
StreamNow(failAt) ==
    [buf     |-> [buffer |-> buffer, currentIndex |-> currentIndex],
     matches |-> matches,
     dest    |-> dest,
     plain   |-> plain,
     total   |-> Len(written),
     nw      |-> 0,
     failAt  |-> failAt,
     err     |-> FALSE]

\* a new stream
NewStream ==
    [buf     |-> [buffer |-> <<>>, currentIndex |-> 0],
     matches |-> <<>>,
     dest    |-> <<>>,
     plain   |-> <<>>,
     total   |-> 0,
     nw      |-> 0,
     failAt  |-> 0,
     err     |-> FALSE]

----------------------------------------------------------------------------
(* The state machine of one stream and its frames. *)

\* what the history variables remember of the state an operation started in
Pre ==
    [buffer |-> buffer, currentIndex |-> currentIndex, matches |-> matches,
     dest |-> dest, total |-> Len(written), frames |-> frames,
     registered |-> registered]

NoCall == [op |-> "none", index |-> 0, ret |-> <<>>, panic |-> FALSE, pre |-> Pre]

\* no Write and no flush is running as a goroutine of its own
NoGoroutines ==
    [wpc      |-> "idle",  \* where the goroutine that calls Write stands
     p        |-> <<>>,    \* the argument of the running Write
     n        |-> 0,       \* the n of s.buf.Write(p)
     pend     |-> {},      \* matches of s.matcher.Write not passed to addMatch yet
     m        |-> <<0, 0>>, \* the index and length of the running addMatch
     seen     |-> 0,       \* what s.buf.CurrentIndex() returned to addMatch
     ret      |-> [n |-> 0, err |-> FALSE], \* what the last Write returned
     fpc      |-> "idle",  \* where the goroutine that calls flush stands
     fn       |-> 0,       \* the argument of the running flush
     start    |-> 0,       \* startIndex
     endIndex |-> 0,       \* endIndex
     i        |-> 0,       \* the loop variable of flush
     length   |-> 0,       \* the length read from s.matches[i]
     nbefore  |-> 0,       \* len(beforeMatch)
     lock     |-> "free",  \* who holds s.matchesLock
     mutex    |-> "free",  \* who holds s.buf.mutex
     btotal   |-> 0,       \* history: bytes ever written to the buffer
     inserted |-> {},      \* history: the matches addMatch put into s.matches
     regBefore |-> <<>>,   \* history: the frames registered before the running Write
     fedBefore |-> 0]      \* history: bytes fed to the matcher before the running Write

\* newBufferedSecretReader
NewBufferedSecretReader ==
    [secretsRead |-> <<>>,   \* bufferedSecretReader.secretsRead
     calls       |-> 0,      \* history: number of ReadSecret calls
     succeeded   |-> <<>>,   \* history: the values of the calls that returned no error
     ret         |-> [secret |-> "", err |-> FALSE], \* history: the last return
     pre         |-> <<>>]   \* history: secretsRead before the last call

\* createAccountKey has not been called
NoRun ==
    [pc      |-> "idle",   \* where Run and createAccountKey stand
     noWait  |-> FALSE,    \* cmd.noWait
     isContinue |-> FALSE, \* cmd.isContinue
     force   |-> FALSE,    \* cmd.force
     exists  |-> FALSE,    \* Credential().Exists() when Run starts
     wrote   |-> FALSE,    \* history: Run wrote a new credential to the store
     runAuth |-> "none",   \* history: what isAuthenticated returned to Run
     runKey  |-> "none",   \* history: the PublicKey of the user that Me() returned to Run
     asked   |-> "none",   \* history: the answer to the question Run asked
     result  |-> "none",   \* what createAccountKey returned
     gpc     |-> "none",   \* where the goroutine of waitForCredentialToBeAdded stands
     gerr    |-> "nil",    \* the err of the goroutine's last isAuthenticated
     sent    |-> <<>>,     \* history: the channels the goroutine has sent on
     resolved |-> <<>>,    \* history: the cases of the select that were taken
     c       |-> <<>>,     \* the channel c (capacity 1)
     errc    |-> <<>>,     \* the channel errc (capacity 1)
     sawAuth |-> "none",   \* history: how isAuthenticated was seen to return true
     unauth  |-> FALSE,    \* history: the first isAuthenticated returned (false, nil)
     meKey   |-> "none",   \* history: the PublicKey of the user that Me() returned
     waited  |-> FALSE,    \* history: waitForCredentialToBeAdded was called
     created |-> FALSE]    \* history: Accounts().Keys().Create was called

Init ==
    /\ scenario \in Scenarios
    /\ written = <<>>
    /\ buffer = NewStream.buf.buffer
    /\ currentIndex = NewStream.buf.currentIndex
    /\ matches = NewStream.matches
    /\ frames = <<>>
    /\ dest = NewStream.dest
    /\ plain = <<>>
    /\ registered = <<>>
    /\ interleaved = FALSE
    /\ late = FALSE
    /\ last = [op |-> "new", p |-> <<>>, n |-> 0, reported |-> {}, pre |-> Pre]
    /\ bufCall = NoCall
    /\ bufPrev = NoCall
    /\ conc = NoGoroutines
    /\ reader = NewBufferedSecretReader
    /\ acct = NoRun
    /\ failed = {}

\* stream.Write(p), with the registration of its frame
Write(p) ==
    LET s == streamWrite(StreamNow(0), Secrets(scenario), written, p)
        n == Len(p)
        reported == MatcherWrite(Secrets(scenario), written, p)
    IN  /\ written' = written \o p
        /\ buffer' = s.buf.buffer
        /\ currentIndex' = s.buf.currentIndex
        /\ matches' = s.matches
        /\ frames' = registerFrame(frames, n)
        /\ registered' = registerFrame(registered, n)
        /\ interleaved' = (interleaved \/ Len(registered) > Len(frames))
        /\ late' = (late \/ \E m \in reported : m[1] < Len(written) - Sum(frames))
        /\ last' = [op |-> "Write", p |-> p, n |-> n, reported |-> reported,
                    pre |-> Pre]
        /\ UNCHANGED <<scenario, dest, plain, bufCall, bufPrev, conc, reader, acct, failed>>

\* the masker flushes the oldest registered frame: stream.flush(n)
Flush ==
    /\ frames # <<>>
    /\ LET n == Head(frames)
           s == flush(StreamNow(0), n)
       IN  /\ buffer' = s.buf.buffer
           /\ currentIndex' = s.buf.currentIndex
           /\ matches' = s.matches
           /\ dest' = s.dest
           /\ plain' = s.plain
           /\ frames' = Tail(frames)
           /\ last' = [op |-> "flush", p |-> <<>>, n |-> n, reported |-> {},
                       pre |-> Pre]
    /\ UNCHANGED <<scenario, written, registered, interleaved, late, bufCall, bufPrev,
                   conc, reader, acct, failed>>

Next ==
    \/ \E p \in Chunks(scenario, written) : Write(p)
    \/ Flush

Spec == Init /\ [][Next]_vars

----------------------------------------------------------------------------
(* The IndexedBuffer used on its own: Write and UpToIndex called directly, *)
(* with any index.                                                         *)

\* the indices passed to a direct UpToIndex call
Indices == 0..(MaxBufTotal + MaxOver)

\* the slices passed to a direct Write call
BufChunks(w) == {p \in FreeChunks : Len(w) + Len(p) <= MaxBufTotal}

InitBuf == Init /\ scenario = "free"

\* IndexedBuffer.Write(p)
BufWrite(p) ==
    LET w == BufferWrite([buffer |-> buffer, currentIndex |-> currentIndex], p)
    IN  /\ buffer' = w.b.buffer
        /\ currentIndex' = w.b.currentIndex
        /\ written' = written \o p
        /\ bufCall' = [op |-> "Write", index |-> 0, ret |-> <<>>,
                       panic |-> w.panic, pre |-> Pre]
        /\ bufPrev' = bufCall
        /\ UNCHANGED <<scenario, matches, frames, dest, plain, registered,
                       interleaved, late, last, conc, reader, acct, failed>>

\* IndexedBuffer.UpToIndex(index)
BufUpToIndex(index) ==
    LET r == UpToIndex([buffer |-> buffer, currentIndex |-> currentIndex], index)
    IN  /\ buffer' = r.b.buffer
        /\ currentIndex' = r.b.currentIndex
        /\ bufCall' = [op |-> "UpToIndex", index |-> index, ret |-> r.ret,
                       panic |-> r.panic, pre |-> Pre]
        /\ bufPrev' = bufCall
        /\ UNCHANGED <<scenario, written, matches, frames, dest, plain, registered,
                       interleaved, late, last, conc, reader, acct, failed>>

BufNext ==
    \/ \E p \in BufChunks(written) : BufWrite(p)
    \/ \E index \in Indices : BufUpToIndex(index)

SpecBuf == InitBuf /\ [][BufNext]_vars

----------------------------------------------------------------------------
(* A Write and a flush of the same stream that run as two goroutines.      *)
(* Every step is one access to the state they share: the buffer with its   *)
(* mutex and the match map with matchesLock.                               *)

\* the slices passed to Write while a flush may be running
ConcChunks == {p \in FreeChunks : conc.btotal + Len(p) <= MaxConcTotal}

InitConc == Init /\ scenario = "free"

\* the variables that the two goroutines leave alone
concRest == <<scenario, interleaved, late, last, bufCall, bufPrev, reader, acct, failed>>

\* the stream value for a destination write of the running flush
ConcStream ==
    [StreamNow(0) EXCEPT !.total = conc.btotal]

\* Write(p) is called and IndexedBuffer.Write locks the mutex
ConcWriteCall(p) ==
    /\ conc.wpc = "idle"
    /\ conc.mutex = "free"
    /\ conc' = [conc EXCEPT !.wpc = "bufWrite", !.p = p, !.mutex = "w",
                            !.regBefore = registered, !.fedBefore = Len(written)]
    /\ UNCHANGED <<written, buffer, currentIndex, matches, frames, dest, plain,
                   registered>>
    /\ UNCHANGED concRest

\* IndexedBuffer.Write appends p and unlocks the mutex
ConcBufWrite ==
    /\ conc.wpc = "bufWrite"
    /\ LET w == BufferWrite([buffer |-> buffer, currentIndex |-> currentIndex], conc.p)
       IN  /\ buffer' = w.b.buffer
           /\ conc' = [conc EXCEPT !.wpc = "register", !.n = w.n, !.mutex = "free",
                                   !.btotal = conc.btotal + w.n]
    /\ UNCHANGED <<written, currentIndex, matches, frames, dest, plain, registered>>
    /\ UNCHANGED concRest

\* if n > 0 { s.registerFrame(s, n) }
ConcRegister ==
    /\ conc.wpc = "register"
    /\ frames' = registerFrame(frames, conc.n)
    /\ registered' = registerFrame(registered, conc.n)
    /\ conc' = [conc EXCEPT !.wpc = "match"]
    /\ UNCHANGED <<written, buffer, currentIndex, matches, dest, plain>>
    /\ UNCHANGED concRest

\* s.matcher.Write(p[:n])
ConcMatcherWrite ==
    /\ conc.wpc = "match"
    /\ LET fed == Slice(conc.p, 0, conc.n)
           ms == MatcherWrite(Secrets(scenario), written, fed)
       IN  /\ written' = written \o fed
           /\ conc' = [conc EXCEPT !.pend = ms,
                                   !.wpc = IF ms = {} THEN "return" ELSE "lock"]
    /\ UNCHANGED <<buffer, currentIndex, matches, frames, dest, plain, registered>>
    /\ UNCHANGED concRest

\* addMatch of one of the reported matches: s.matchesLock.Lock()
ConcAddLock ==
    /\ conc.wpc = "lock"
    /\ conc.lock = "free"
    /\ \E m \in conc.pend :
          conc' = [conc EXCEPT !.wpc = "check", !.m = m, !.lock = "w"]
    /\ UNCHANGED <<written, buffer, currentIndex, matches, frames, dest, plain,
                   registered>>
    /\ UNCHANGED concRest

\* addMatch evaluates s.buf.CurrentIndex()
ConcAddCheck ==
    /\ conc.wpc = "check"
    /\ conc' = [conc EXCEPT !.wpc = "insert", !.seen = currentIndex]
    /\ UNCHANGED <<written, buffer, currentIndex, matches, frames, dest, plain,
                   registered>>
    /\ UNCHANGED concRest

\* addMatch compares and adds the match
ConcAddInsert ==
    /\ conc.wpc = "insert"
    /\ LET s == addMatch([buf |-> [buffer |-> buffer, currentIndex |-> conc.seen],
                          matches |-> matches], conc.m[1], conc.m[2])
       IN  /\ matches' = s.matches
           /\ conc' = [conc EXCEPT
                 !.wpc = "unlock",
                 !.inserted = IF s.matches # matches
                              THEN conc.inserted \cup {conc.m} ELSE conc.inserted]
    /\ UNCHANGED <<written, buffer, currentIndex, frames, dest, plain, registered>>
    /\ UNCHANGED concRest

\* the deferred s.matchesLock.Unlock() of addMatch
ConcAddUnlock ==
    /\ conc.wpc = "unlock"
    /\ conc' = [conc EXCEPT !.lock = "free", !.pend = conc.pend \ {conc.m},
                            !.wpc = IF conc.pend \ {conc.m} = {}
                                    THEN "return" ELSE "lock"]
    /\ UNCHANGED <<written, buffer, currentIndex, matches, frames, dest, plain,
                   registered>>
    /\ UNCHANGED concRest

\* return n, err
ConcWriteReturn ==
    /\ conc.wpc = "return"
    /\ conc' = [conc EXCEPT !.wpc = "idle", !.ret = [n |-> conc.n, err |-> FALSE]]
    /\ UNCHANGED <<written, buffer, currentIndex, matches, frames, dest, plain,
                   registered>>
    /\ UNCHANGED concRest

\* the masker calls flush(n) for the oldest registered frame
ConcFlushCall ==
    /\ conc.fpc = "idle"
    /\ frames # <<>>
    /\ frames' = Tail(frames)
    /\ conc' = [conc EXCEPT !.fpc = "start", !.fn = Head(frames)]
    /\ UNCHANGED <<written, buffer, currentIndex, matches, dest, plain, registered>>
    /\ UNCHANGED concRest

\* startIndex := s.buf.CurrentIndex(); endIndex := startIndex + int64(n)
ConcFlushStart ==
    /\ conc.fpc = "start"
    /\ conc' = [conc EXCEPT !.fpc = "loop", !.start = currentIndex,
                            !.endIndex = currentIndex + conc.fn, !.i = currentIndex]
    /\ UNCHANGED <<written, buffer, currentIndex, matches, frames, dest, plain,
                   registered>>
    /\ UNCHANGED concRest

\* the loop test, and "length, exists := s.matches[i]" under s.matchesLock
ConcFlushRead ==
    /\ conc.fpc = "loop"
    /\ \/ /\ conc.i >= conc.endIndex
          /\ conc' = [conc EXCEPT !.fpc = "tail"]
       \/ /\ conc.i < conc.endIndex
          /\ conc.lock = "free"
          /\ conc' = IF conc.i \in DOMAIN matches
                     THEN [conc EXCEPT !.fpc = "before", !.length = matches[conc.i]]
                     ELSE [conc EXCEPT !.i = conc.i + 1]
    /\ UNCHANGED <<written, buffer, currentIndex, matches, frames, dest, plain,
                   registered>>
    /\ UNCHANGED concRest

\* b.mutex.Lock() of the UpToIndex call that flush makes next
ConcUpToIndexLock ==
    /\ conc.fpc \in {"before", "drop", "tail"}
    /\ conc.mutex = "free"
    /\ conc' = [conc EXCEPT !.mutex = "f"]
    /\ UNCHANGED <<written, buffer, currentIndex, matches, frames, dest, plain,
                   registered>>
    /\ UNCHANGED concRest

\* beforeMatch := s.buf.UpToIndex(i); s.dest.Write(beforeMatch)
ConcFlushBefore ==
    /\ conc.fpc = "before"
    /\ conc.mutex = "f"
    /\ LET r == UpToIndex(ConcStream.buf, conc.i)
           w == destWrite([ConcStream EXCEPT !.buf = r.b], r.ret,
                    Offsets(HeadOffset(ConcStream),
                            HeadOffset(ConcStream) + Len(r.ret)))
       IN  /\ buffer' = r.b.buffer
           /\ currentIndex' = r.b.currentIndex
           /\ dest' = w.dest
           /\ plain' = w.plain
           /\ conc' = [conc EXCEPT !.fpc = "marker", !.mutex = "free",
                                   !.nbefore = Len(r.ret)]
    /\ UNCHANGED <<written, matches, frames, registered>>
    /\ UNCHANGED concRest

\* if len(beforeMatch) > 0 || s.buf.CurrentIndex() == 0 { s.dest.Write(marker) }
ConcFlushMarker ==
    /\ conc.fpc = "marker"
    /\ LET w == IF conc.nbefore > 0 \/ currentIndex = 0
                THEN destWrite(ConcStream, RedactionText, <<>>)
                ELSE ConcStream
       IN  /\ dest' = w.dest
           /\ plain' = w.plain
    /\ conc' = [conc EXCEPT !.fpc = "drop"]
    /\ UNCHANGED <<written, buffer, currentIndex, matches, frames, registered>>
    /\ UNCHANGED concRest

\* _ = s.buf.UpToIndex(i + int64(length))
ConcFlushDrop ==
    /\ conc.fpc = "drop"
    /\ conc.mutex = "f"
    /\ LET r == UpToIndex(ConcStream.buf, conc.i + conc.length)
       IN  /\ buffer' = r.b.buffer
           /\ currentIndex' = r.b.currentIndex
    /\ conc' = [conc EXCEPT !.fpc = "delete", !.mutex = "free"]
    /\ UNCHANGED <<written, matches, frames, dest, plain, registered>>
    /\ UNCHANGED concRest

\* delete(s.matches, i), made without s.matchesLock.  When addMatch holds the
\* lock at that moment the map is read and written at once: the Go runtime
\* either completes the delete or stops the program ("concurrent map writes").
ConcFlushDelete ==
    /\ conc.fpc = "delete"
    /\ \/ /\ matches' = MatchesDelete(matches, conc.i)
          /\ conc' = [conc EXCEPT !.fpc = "loop", !.i = conc.i + 1]
       \/ /\ conc.lock = "w"
          /\ matches' = matches
          /\ conc' = [conc EXCEPT !.fpc = "fatal", !.wpc = "fatal"]
    /\ UNCHANGED <<written, buffer, currentIndex, frames, dest, plain, registered>>
    /\ UNCHANGED concRest

\* s.dest.Write(s.buf.UpToIndex(endIndex)); return nil
ConcFlushTail ==
    /\ conc.fpc = "tail"
    /\ conc.mutex = "f"
    /\ LET r == UpToIndex(ConcStream.buf, conc.endIndex)
           w == destWrite([ConcStream EXCEPT !.buf = r.b], r.ret,
                    Offsets(HeadOffset(ConcStream),
                            HeadOffset(ConcStream) + Len(r.ret)))
       IN  /\ buffer' = r.b.buffer
           /\ currentIndex' = r.b.currentIndex
           /\ dest' = w.dest
           /\ plain' = w.plain
    /\ conc' = [conc EXCEPT !.fpc = "idle", !.mutex = "free"]
    /\ UNCHANGED <<written, matches, frames, registered>>
    /\ UNCHANGED concRest

ConcNext ==
    \/ \E p \in ConcChunks : ConcWriteCall(p)
    \/ ConcBufWrite
    \/ ConcRegister
    \/ ConcMatcherWrite
    \/ ConcAddLock
    \/ ConcAddCheck
    \/ ConcAddInsert
    \/ ConcAddUnlock
    \/ ConcWriteReturn
    \/ ConcFlushCall
    \/ ConcFlushStart
    \/ ConcFlushRead
    \/ ConcUpToIndexLock
    \/ ConcFlushBefore
    \/ ConcFlushMarker
    \/ ConcFlushDrop
    \/ ConcFlushDelete
    \/ ConcFlushTail

SpecConc == InitConc /\ [][ConcNext]_vars

----------------------------------------------------------------------------
(* The stream with a destination whose Write may return an error. *)

InitFail == Init /\ scenario = "overlap"

\* the slices passed to Write of a stream whose destination may fail
FailChunks == {p \in FreeChunks : Len(written) + Len(p) <= MaxFailTotal}

\* stream.Write(p) does not write to the destination
WriteFail(p) == Write(p)

\* the offset of the match at which the loop of a flush from startIndex stopped:
\* the loop deletes every match it has handled, so it is the first one left
FailedMatch(s, startIndex) ==
    LET left == {j \in DOMAIN s.matches : j >= startIndex}
    IN  CHOOSE i \in left : \A j \in left : i <= j

\* stream.flush(n) when the k-th Write call on the destination returns an
\* error (k = 0: none does); flush returns the error of that call.  The
\* destination fails in one flush of a run, the flushes after it go through.
FlushDest(k) ==
    /\ frames # <<>>
    /\ k = 0 \/ failed = {}
    /\ LET n == Head(frames)
           s0 == StreamNow(k)
           s == flush(s0, n)
           inLoop == flushLoop(s0, currentIndex, currentIndex + n).err
       IN  /\ buffer' = s.buf.buffer
           /\ currentIndex' = s.buf.currentIndex
           /\ matches' = s.matches
           /\ dest' = s.dest
           /\ plain' = s.plain
           /\ frames' = Tail(frames)
           /\ last' = [op |-> "flush", p |-> <<>>, n |-> n, reported |-> {},
                       pre |-> Pre, failAt |-> k, nw |-> s.nw, err |-> s.err,
                       inLoop |-> inLoop]
           /\ failed' = IF s.err
                        THEN failed \cup
                             {[inLoop |-> inLoop,
                               at     |-> Len(s.plain),
                               i      |-> IF inLoop THEN FailedMatch(s, currentIndex)
                                          ELSE 0,
                               length |-> IF inLoop
                                          THEN s.matches[FailedMatch(s, currentIndex)]
                                          ELSE 0]}
                        ELSE failed
    /\ UNCHANGED <<scenario, written, registered, interleaved, late, bufCall, bufPrev,
                   conc, reader, acct>>

NextFail ==
    \/ \E p \in FailChunks : WriteFail(p)
    \/ \E k \in 0..MaxFailAt : FlushDest(k)

SpecFail == InitFail /\ [][NextFail]_vars

----------------------------------------------------------------------------
(* The bufferedSecretReader that supplies the known secrets. *)

\* the data of the secrets that can be read
SecretData == {"", "s1", "s2"}

\* secretReader.ReadSecret: newClient or GetWithData may return an error
secretReaderReadSecret(clientErr, getErr, data) ==
    IF clientErr THEN [secret |-> "", err |-> TRUE]
    ELSE IF getErr THEN [secret |-> "", err |-> TRUE]
    ELSE [secret |-> data, err |-> FALSE]

\* ReadSecret that stores the result of a failed read as well
bufferedReadSecretAlways(sr, res) ==
    [sr EXCEPT !.secretsRead = Append(sr.secretsRead, res.secret)]

\* bufferedSecretReader.ReadSecret, given what the wrapped reader returned
bufferedReadSecret(sr, res) ==
    IF ~res.err
    THEN [sr EXCEPT !.secretsRead = Append(sr.secretsRead, res.secret)]
    ELSE sr

\* bufferedSecretReader.SecretsRead
SecretsRead(sr) == sr.secretsRead

InitReader == Init /\ scenario = "free"

ReadSecret(clientErr, getErr, data) ==
    /\ reader.calls < MaxReads
    /\ LET res == secretReaderReadSecret(clientErr, getErr, data)
           sr == bufferedReadSecret(reader, res)
       IN  reader' = [sr EXCEPT
               !.calls = reader.calls + 1,
               !.succeeded = IF res.err THEN reader.succeeded
                             ELSE Append(reader.succeeded, res.secret),
               !.ret = res,
               !.pre = reader.secretsRead]
    /\ UNCHANGED <<scenario, written, buffer, currentIndex, matches, frames, dest,
                   plain, registered, interleaved, late, last, bufCall, bufPrev,
                   conc, acct, failed>>

NextReader ==
    \E clientErr \in BOOLEAN, getErr \in BOOLEAN, data \in SecretData :
        ReadSecret(clientErr, getErr, data)

SpecReader == InitReader /\ [][NextReader]_vars

----------------------------------------------------------------------------
(* AccountInitCommand.Run and createAccountKey.  What the client returns      *)
(* (newClient, Users().Me(), Keys().Exists(), Keys().Create()), what the     *)
(* user answers and what the credential store does are inputs of the steps.  *)

\* the errors that Users().Me() can return; "nil" is no error
MeErrors == {"nil", "ErrSignatureNotVerified", "errMe"}

\* isAuthenticated, given the error that client.Users().Me() returned
isAuthenticated(meErr) ==
    IF meErr = "ErrSignatureNotVerified"
    THEN [authenticated |-> FALSE, err |-> "nil"]
    ELSE IF meErr = "nil"
         THEN [authenticated |-> TRUE, err |-> "nil"]
         ELSE [authenticated |-> FALSE, err |-> meErr]

\* a branch that goes on to create the key whatever me.PublicKey is
publicKeyBranchOpen(publicKey) == "import"

\* if me.PublicKey != nil { ... return } : where createAccountKey goes next
publicKeyBranch(publicKey) == IF publicKey # "nil" THEN "exists" ELSE "import"

InitAcct == Init /\ scenario = "free"

\* the variables that createAccountKey leaves alone
acctRest == <<scenario, written, buffer, currentIndex, matches, frames, dest, plain,
              registered, interleaved, late, last, bufCall, bufPrev, conc, reader,
              failed>>

\* the answers of ui.AskYesNo: confirmed, not confirmed, or an error
Answers == {"yes", "no", "ErrCannotAsk", "errAsk"}

\* a Run that goes on whatever the user answers
afterAskAnyAnswer(answer, cannotAsk, next) ==
    IF answer = "ErrCannotAsk" THEN [pc |-> "done", result |-> cannotAsk]
    ELSE IF answer = "errAsk" THEN [pc |-> "done", result |-> "errAsk"]
    ELSE [pc |-> next, result |-> "none"]

\* where Run goes after ui.AskYesNo, when "yes" leads to next
afterAsk(answer, cannotAsk, next) ==
    IF answer = "ErrCannotAsk" THEN [pc |-> "done", result |-> cannotAsk]
    ELSE IF answer = "errAsk" THEN [pc |-> "done", result |-> "errAsk"]
    ELSE IF answer = "no" THEN [pc |-> "done", result |-> "nil"]
    ELSE [pc |-> next, result |-> "none"]

\* Run starts with the flags of the command line; the test of cmd.isContinue
\* and of Credential().Exists()
RunStart(isContinue, force, noWait, exists) ==
    /\ acct.pc = "idle"
    /\ acct' = [acct EXCEPT
                  !.isContinue = isContinue, !.force = force, !.noWait = noWait,
                  !.exists = exists,
                  !.pc = IF isContinue
                         THEN (IF exists THEN "newClient" ELSE "done")
                         ELSE (IF exists THEN "runNewClient" ELSE "runPassphrase"),
                  !.result = IF isContinue /\ ~exists
                             THEN "ErrCredentialNotGenerated" ELSE "none"]
    /\ UNCHANGED acctRest

\* Run: client, err := cmd.newClient()
RunNewClient(err) ==
    /\ acct.pc = "runNewClient"
    /\ acct' = IF err
               THEN [acct EXCEPT !.pc = "done", !.result = "errNewClient"]
               ELSE [acct EXCEPT !.pc = "runIsAuthenticated"]
    /\ UNCHANGED acctRest

\* Run: authenticated, err := cmd.isAuthenticated(client)
RunIsAuthenticated(meErr) ==
    /\ acct.pc = "runIsAuthenticated"
    /\ LET r == isAuthenticated(meErr)
       IN  acct' =
             IF r.err # "nil"
             THEN [acct EXCEPT !.pc = "done", !.result = r.err]
             ELSE IF r.authenticated
             THEN [acct EXCEPT !.pc = "runMe", !.runAuth = "true"]
             ELSE [acct EXCEPT !.runAuth = "false",
                               !.pc = IF ~acct.force THEN "runAskOverwrite"
                                      ELSE "runPassphrase"]
    /\ UNCHANGED acctRest

\* Run: me, err := client.Users().Me() and the test of me.PublicKey
RunMe(meErr, publicKey) ==
    /\ acct.pc = "runMe"
    /\ acct' = IF meErr # "nil"
               THEN [acct EXCEPT !.pc = "done", !.result = meErr]
               ELSE [acct EXCEPT
                       !.runKey = publicKey,
                       !.pc = IF publicKey = "nil"
                              THEN (IF ~acct.force THEN "runAskContinue"
                                    ELSE "newClient")
                              ELSE "runExists"]
    /\ UNCHANGED acctRest

\* Run: "Already started initializing for %s. Do you want to continue?"
RunAskContinue(answer) ==
    /\ acct.pc = "runAskContinue"
    /\ LET a == afterAsk(answer, "ErrCredentialAlreadyAuthorized", "newClient")
       IN  acct' = [acct EXCEPT !.pc = a.pc, !.result = a.result, !.asked = answer]
    /\ UNCHANGED acctRest

\* Run: keyedForClient, err := client.Accounts().Keys().Exists()
RunKeysExists(err, keyedForClient) ==
    /\ acct.pc = "runExists"
    /\ acct' = [acct EXCEPT
                  !.pc = "done",
                  !.result = IF err THEN "errExists"
                             ELSE IF keyedForClient THEN "ErrAccountAlreadyConnected"
                             ELSE "ErrAccountAlreadyInitialized"]
    /\ UNCHANGED acctRest

\* Run: "Found account credentials at %s, do you wish to overwrite them?"
RunAskOverwrite(answer) ==
    /\ acct.pc = "runAskOverwrite"
    /\ LET a == afterAsk(answer, "ErrLocalAccountFound", "runPassphrase")
       IN  acct' = [acct EXCEPT !.pc = a.pc, !.result = a.result, !.asked = answer]
    /\ UNCHANGED acctRest

\* Run: ui.AskPassphrase when no passphrase is set and --force is not used
RunPassphrase(isPassphraseSet, err) ==
    /\ acct.pc = "runPassphrase"
    /\ acct' = IF ~isPassphraseSet /\ ~acct.force /\ err
               THEN [acct EXCEPT !.pc = "done", !.result = "errPassphrase"]
               ELSE [acct EXCEPT !.pc = "runCreate"]
    /\ UNCHANGED acctRest

\* Run: credential.Create() and exportKey.Export()
RunCredentialCreate(err) ==
    /\ acct.pc = "runCreate"
    /\ acct' = IF err
               THEN [acct EXCEPT !.pc = "done", !.result = "errCredential"]
               ELSE [acct EXCEPT !.pc = "runWrite"]
    /\ UNCHANGED acctRest

\* Run: cmd.credentialStore.ConfigDir().Credential().Write(exportedCredential)
RunCredentialWrite(err) ==
    /\ acct.pc = "runWrite"
    /\ acct' = IF err
               THEN [acct EXCEPT !.pc = "done", !.result = "errWrite"]
               ELSE [acct EXCEPT !.pc = "runOutput", !.wrote = TRUE]
    /\ UNCHANGED acctRest

\* Run: the verifier, the fingerprint and the output of the public component;
\* then Run calls createAccountKey
RunOutput(err) ==
    /\ acct.pc = "runOutput"
    /\ acct' = IF err
               THEN [acct EXCEPT !.pc = "done", !.result = "errOutput"]
               ELSE [acct EXCEPT !.pc = "newClient"]
    /\ UNCHANGED acctRest

\* client, err := cmd.newClient()
AcctNewClient(err) ==
    /\ acct.pc = "newClient"
    /\ acct' = IF err
               THEN [acct EXCEPT !.pc = "done", !.result = "errNewClient"]
               ELSE [acct EXCEPT !.pc = "isAuthenticated"]
    /\ UNCHANGED acctRest

\* isAuthenticated, err := cmd.isAuthenticated(client) and the branch on it,
\* with the call of waitForCredentialToBeAdded that starts the goroutine
AcctIsAuthenticated(meErr) ==
    /\ acct.pc = "isAuthenticated"
    /\ LET r == isAuthenticated(meErr)
       IN  acct' =
             IF r.err # "nil"
             THEN [acct EXCEPT !.pc = "done", !.result = r.err]
             ELSE IF r.authenticated
             THEN [acct EXCEPT !.pc = "me", !.sawAuth = "direct"]
             ELSE IF acct.noWait
             THEN [acct EXCEPT !.pc = "done", !.result = "nil", !.unauth = TRUE]
             ELSE [acct EXCEPT !.pc = "wait", !.unauth = TRUE, !.waited = TRUE,
                               !.gpc = "poll"]
    /\ UNCHANGED acctRest

\* the capacity of channels made with no buffer: make(chan error), make(chan bool)
Unbuffered == Len(<<>>)

\* the capacity of errc and of c: make(chan error, 1), make(chan bool, 1)
ChanCap == 1

\* the goroutine: isAuthenticated and the tests of its result, up to the
\* send or the Sleep
GoPoll(meErr) ==
    /\ acct.gpc = "poll"
    /\ LET r == isAuthenticated(meErr)
       IN  acct' =
             IF r.err # "nil"
             THEN [acct EXCEPT !.gerr = r.err, !.gpc = "sendErr"]
             ELSE IF r.authenticated
             THEN [acct EXCEPT !.gerr = "nil", !.gpc = "sendAuthenticated"]
             ELSE [acct EXCEPT !.gerr = "nil", !.gpc = "sleep"]
    /\ UNCHANGED acctRest

\* the goroutine: errc <- err; break.  The send goes through when the
\* channel has room for it; nothing receives after createAccountKey returned.
GoSendErr ==
    /\ acct.gpc = "sendErr"
    /\ Len(acct.errc) < ChanCap
    /\ acct' = [acct EXCEPT !.errc = Append(acct.errc, acct.gerr), !.gpc = "done",
                            !.sent = Append(acct.sent, "errc")]
    /\ UNCHANGED acctRest

\* the goroutine: c <- true; break
GoSendAuthenticated ==
    /\ acct.gpc = "sendAuthenticated"
    /\ Len(acct.c) < ChanCap
    /\ acct' = [acct EXCEPT !.c = Append(acct.c, TRUE), !.gpc = "done",
                            !.sent = Append(acct.sent, "c")]
    /\ UNCHANGED acctRest

\* time.Sleep(WaitDelta) is over
GoWake ==
    /\ acct.gpc = "sleep"
    /\ acct' = [acct EXCEPT !.gpc = "poll"]
    /\ UNCHANGED acctRest

\* case <-authenticatedC
AcctSelectAuthenticated ==
    /\ acct.pc = "wait"
    /\ acct.c # <<>>
    /\ acct' = [acct EXCEPT !.c = Tail(acct.c), !.pc = "me", !.sawAuth = "wait",
                            !.resolved = Append(acct.resolved, "authenticated")]
    /\ UNCHANGED acctRest

\* case err := <-errC
AcctSelectErr ==
    /\ acct.pc = "wait"
    /\ acct.errc # <<>>
    /\ acct' = [acct EXCEPT !.errc = Tail(acct.errc), !.pc = "done",
                            !.result = Head(acct.errc),
                            !.resolved = Append(acct.resolved, "err")]
    /\ UNCHANGED acctRest

\* case <-time.After(WaitTimeout)
AcctSelectTimeout ==
    /\ acct.pc = "wait"
    /\ acct' = [acct EXCEPT !.pc = "done", !.result = "ErrAddCredentialTimeout",
                            !.resolved = Append(acct.resolved, "timeout")]
    /\ UNCHANGED acctRest

\* me, err := client.Users().Me() and the test of me.PublicKey
AcctMe(meErr, publicKey) ==
    /\ acct.pc = "me"
    /\ acct' = IF meErr # "nil"
               THEN [acct EXCEPT !.pc = "done", !.result = meErr]
               ELSE [acct EXCEPT !.pc = publicKeyBranch(publicKey),
                                 !.meKey = publicKey]
    /\ UNCHANGED acctRest

\* keyedForClient, err := client.Accounts().Keys().Exists()
AcctKeysExists(err, keyedForClient) ==
    /\ acct.pc = "exists"
    /\ acct' = [acct EXCEPT
                  !.pc = "done",
                  !.result = IF err THEN "errExists"
                             ELSE IF keyedForClient THEN "ErrAccountAlreadyConnected"
                             ELSE "ErrAccountAlreadyInitialized"]
    /\ UNCHANGED acctRest

\* credentialStore.Import(), Verifier() and api.GetFingerprint
AcctImport(err) ==
    /\ acct.pc = "import"
    /\ acct' = IF err
               THEN [acct EXCEPT !.pc = "done", !.result = "errImport"]
               ELSE [acct EXCEPT !.pc = "create"]
    /\ UNCHANGED acctRest

\* _, err = client.Accounts().Keys().Create(fingerprint, key.Encrypter())
AcctCreate(err) ==
    /\ acct.pc = "create"
    /\ acct' = [acct EXCEPT !.pc = "done", !.created = TRUE,
                            !.result = IF err THEN "errCreate" ELSE "nil"]
    /\ UNCHANGED acctRest

NextAcct ==
    \/ \E isContinue \in BOOLEAN, force \in BOOLEAN, noWait \in BOOLEAN,
          exists \in BOOLEAN : RunStart(isContinue, force, noWait, exists)
    \/ \E err \in BOOLEAN : RunNewClient(err)
    \/ \E meErr \in MeErrors : RunIsAuthenticated(meErr)
    \/ \E meErr \in MeErrors, publicKey \in {"nil", "key"} : RunMe(meErr, publicKey)
    \/ \E answer \in Answers : RunAskContinue(answer)
    \/ \E err \in BOOLEAN, keyedForClient \in BOOLEAN : RunKeysExists(err, keyedForClient)
    \/ \E answer \in Answers : RunAskOverwrite(answer)
    \/ \E isPassphraseSet \in BOOLEAN, err \in BOOLEAN : RunPassphrase(isPassphraseSet, err)
    \/ \E err \in BOOLEAN : RunCredentialCreate(err)
    \/ \E err \in BOOLEAN : RunCredentialWrite(err)
    \/ \E err \in BOOLEAN : RunOutput(err)
    \/ \E err \in BOOLEAN : AcctNewClient(err)
    \/ \E meErr \in MeErrors : AcctIsAuthenticated(meErr)
    \/ \E meErr \in MeErrors : GoPoll(meErr)
    \/ GoSendErr
    \/ GoSendAuthenticated
    \/ GoWake
    \/ AcctSelectAuthenticated
    \/ AcctSelectErr
    \/ AcctSelectTimeout
    \/ \E meErr \in MeErrors, publicKey \in {"nil", "key"} : AcctMe(meErr, publicKey)
    \/ \E err \in BOOLEAN, keyedForClient \in BOOLEAN : AcctKeysExists(err, keyedForClient)
    \/ \E err \in BOOLEAN : AcctImport(err)
    \/ \E err \in BOOLEAN : AcctCreate(err)

SpecAcct == InitAcct /\ [][NextAcct]_vars

----------------------------------------------------------------------------
(* What has reached the destination. *)

\* the concatenation of all bytes written to the destination
DestBytes == Flatten(dest)

\* the number of redaction markers written to the destination
Markers == Cardinality({k \in DOMAIN dest : dest[k] = RedactionText})

\* every registered frame has been flushed
AllFlushed == frames = <<>>

\* the stream offsets at which a known secret occurs in the bytes written
Occurrences ==
    {m \in (0..Len(written)) \X {Len(s) : s \in Secrets(scenario)} :
        \E s \in Secrets(scenario) : Len(s) = m[2] /\ OccursAt(written, s, m[1])}

----------------------------------------------------------------------------
(* C1: no-leak.  Once every registered frame has been flushed in           *)
(* registration order, the bytes written to the destination do not contain *)
(* a known secret as a contiguous substring, for every occurrence whose    *)
(* frames were all still unflushed when the matcher reported it.           *)
C1_NoLeak ==
    (AllFlushed /\ ~late) =>
        \A s \in Secrets(scenario) : ~Contains(DestBytes, s)

----------------------------------------------------------------------------
(* C2: with the known secret "sekrit", the writes "before ", "sek" and     *)
(* "rit after" on a new stream followed by the flush of their frames of    *)
(* 7, 3 and 9 bytes deliver "before ", one redaction marker and " after".  *)
C2_Scenario ==
    (/\ scenario = "sekrit"
     /\ registered = <<7, 3, 9>>
     /\ ~interleaved
     /\ AllFlushed)
    => DestBytes = SekritWrites[1] \o RedactionText
                     \o Slice(SekritWrites[3], 3, Len(SekritWrites[3]))

----------------------------------------------------------------------------
(* C3: split-match.  A known secret written to a new stream in two         *)
(* consecutive Write calls gives, once its frames are flushed in order,    *)
(* the destination output of the same secret written in one Write call     *)
(* and flushed as one frame.                                               *)

\* the destination bytes of a new stream after Write(v) and flush(len(v))
SingleWriteOutput(sc, v) ==
    Flatten(flush(streamWrite(NewStream, Secrets(sc), <<>>, v), Len(v)).dest)

\* the secret was written in two Write calls and nothing else was written
WrittenInTwo ==
    /\ written \in Secrets(scenario)
    /\ Len(registered) = 2
    /\ ~interleaved

C3_SplitMatch ==
    (WrittenInTwo /\ AllFlushed) => DestBytes = SingleWriteOutput(scenario, written)

C3_Witness ==
    /\ WrittenInTwo
    /\ AllFlushed
    /\ scenario = "token123"
    /\ registered = <<3, 5>>
    /\ DestBytes = SingleWriteOutput(scenario, written)

----------------------------------------------------------------------------
(* C4: order.  The buffered bytes delivered to the destination are the     *)
(* written bytes in increasing offset order, and a consumed byte that was  *)
(* not delivered lies inside an occurrence of a known secret.              *)

\* the bytes of the destination writes that are not a redaction marker
DestPlain ==
    Flatten([k \in DOMAIN dest |-> IF dest[k] = RedactionText THEN <<>> ELSE dest[k]])

\* the offset lies inside an occurrence of a known secret
InSecret(off) == \E m \in Occurrences : m[1] <= off /\ off < m[1] + m[2]

C4_Order ==
    /\ \A j, k \in DOMAIN plain : j < k => plain[j] < plain[k]
    /\ DestPlain = [k \in DOMAIN plain |-> written[plain[k] + 1]]
    /\ \A off \in 0..(Len(written) - Len(buffer) - 1) :
          (\E k \in DOMAIN plain : plain[k] = off) \/ InSecret(off)

----------------------------------------------------------------------------
(* C5: leading secret.  When all that is written to a new stream is one    *)
(* known secret, the destination output after the flush of its frames is   *)
(* exactly one redaction marker.                                           *)
C5_LeadingSecret ==
    (/\ written \in Secrets(scenario)
     /\ ~interleaved
     /\ AllFlushed)
    => (DestBytes = RedactionText /\ Markers = 1)

C5_Witness ==
    /\ written \in Secrets(scenario)
    /\ Len(registered) = 1
    /\ AllFlushed
    /\ DestBytes = RedactionText
    /\ Markers = 1

----------------------------------------------------------------------------
(* C6: already flushed.  A match that Write reports with a start offset    *)
(* below the buffer's current index is not recorded: the match map keeps   *)
(* its other entries, gets no entry for it, and the destination is left    *)
(* as it was.                                                              *)

\* the matches of the last Write that start below the current index
LateReported == {m \in last.reported : m[1] < last.pre.currentIndex}

C6_AlreadyFlushed ==
    (last.op = "Write" /\ LateReported # {}) =>
        /\ \A m \in LateReported : m[1] \notin DOMAIN matches
        /\ \A i \in DOMAIN last.pre.matches :
              i \in DOMAIN matches /\ matches[i] = last.pre.matches[i]
        /\ (last.reported = LateReported => matches = last.pre.matches)
        /\ dest = last.pre.dest
        /\ currentIndex = last.pre.currentIndex

C6_Witness ==
    /\ last.op = "Write"
    /\ LateReported # {}
    /\ last.reported = LateReported
    /\ matches = last.pre.matches
    /\ Contains(DestBytes, SubSeq(SecretAB, 1, 1))

----------------------------------------------------------------------------
(* C7: consumption happens once.  UpToIndex called twice in a row with the *)
(* same index returns the buffered bytes up to the index the first time    *)
(* and nothing the second time; with an index below the current index it   *)
(* returns nothing and leaves the current index and the buffer as they     *)
(* were.                                                                   *)

\* the last two direct calls were UpToIndex with the same index
CalledTwice ==
    /\ bufCall.op = "UpToIndex"
    /\ bufPrev.op = "UpToIndex"
    /\ bufCall.index = bufPrev.index

\* the offsets of the buffer agreed with the bytes written before the call c
InStep(c) == c.pre.currentIndex + Len(c.pre.buffer) = c.pre.total

C7_ConsumedOnce ==
    /\ CalledTwice =>
          /\ bufCall.ret = <<>>
          /\ currentIndex = bufCall.pre.currentIndex
          /\ buffer = bufCall.pre.buffer
          /\ bufPrev.index >= bufPrev.pre.currentIndex =>
                /\ bufPrev.ret = Slice(bufPrev.pre.buffer, 0,
                        Min(bufPrev.index - bufPrev.pre.currentIndex,
                            Len(bufPrev.pre.buffer)))
                /\ (InStep(bufPrev) /\ bufPrev.index <= bufPrev.pre.total) =>
                      bufPrev.ret = Slice(written, bufPrev.pre.currentIndex,
                                          bufPrev.index)
    /\ (bufCall.op = "UpToIndex" /\ bufCall.index < bufCall.pre.currentIndex) =>
          /\ bufCall.ret = <<>>
          /\ currentIndex = bufCall.pre.currentIndex
          /\ buffer = bufCall.pre.buffer

C7_Witness ==
    /\ CalledTwice
    /\ Len(bufPrev.ret) = 2
    /\ bufCall.ret = <<>>
    /\ buffer # <<>>

----------------------------------------------------------------------------
(* C8: UpToIndex with an index above the number of bytes ever written      *)
(* fails fatally: it does not return normally and does not move the        *)
(* current index past the bytes written.                                   *)
C8_FatalBeyondWritten ==
    (bufCall.op = "UpToIndex" /\ bufCall.index > bufCall.pre.total) =>
        /\ bufCall.panic
        /\ currentIndex = bufCall.pre.currentIndex
        /\ currentIndex <= Len(written)

----------------------------------------------------------------------------
(* C9: flush(n) consumes exactly n bytes: it leaves the current index n    *)
(* above the index it started with.                                        *)
C9_FlushConsumesN ==
    last.op = "flush" => currentIndex = last.pre.currentIndex + last.n

----------------------------------------------------------------------------
(* C10: offset bookkeeping.  The current index plus the number of buffered *)
(* bytes is the number of bytes ever written, so the current index never   *)
(* exceeds the bytes written.                                              *)
C10_OffsetBookkeeping ==
    /\ currentIndex + Len(buffer) = Len(written)
    /\ currentIndex <= Len(written)

----------------------------------------------------------------------------
(* C11: match retention.  After every completed Write and flush, every     *)
(* start offset in the match map is at or above the buffer's current       *)
(* index.                                                                  *)
C11_MatchRetention == \A i \in DOMAIN matches : i >= currentIndex

----------------------------------------------------------------------------
(* C12: one marker per match.  A flush writes as many redaction markers to *)
(* the destination as it processes recorded matches.                       *)

\* the dest.Write calls of the last flush
FlushCalls == SubSeq(dest, Len(last.pre.dest) + 1, Len(dest))

\* the matches that the last flush took out of the match map
Processed == DOMAIN last.pre.matches \ DOMAIN matches

----------------------------------------------------------------------------
(* C13: marker rule.  For a match that a flush processes, the marker is    *)
(* written if and only if bytes before the match were written for it or    *)
(* the current index was 0 when the flush began.  A flush writes, for each *)
(* match, the bytes before it and then the marker or nothing, and at last  *)
(* the bytes after the last match.                                         *)
C13_MarkerRule ==
    last.op = "flush" =>
        \A k \in 1..(Len(FlushCalls) - 1) :
            FlushCalls[k] # RedactionText =>
                ((FlushCalls[k + 1] = RedactionText)
                    <=> (Len(FlushCalls[k]) > 0 \/ last.pre.currentIndex = 0))

\* C14: a match that addMatch has put into the match map while a flush was
\* running is masked: none of its bytes reaches the destination in plaintext.
C14_AtomicCheckInsert ==
    \A m \in conc.inserted :
        \A k \in DOMAIN plain : ~(m[1] <= plain[k] /\ plain[k] < m[1] + m[2])

\* C15: no goroutine is about to change the match map or the current index
\* while the other goroutine is inside an access to it that the same lock
\* does not cover.
C15_LockDiscipline ==
    /\ ~(conc.fpc = "delete" /\ conc.lock = "w")
    /\ ~(conc.wpc = "check" /\ conc.mutex = "f")

\* C16: a Write that puts n > 0 bytes into the buffer registers one frame of n
\* bytes before the matcher is fed, a Write of 0 bytes registers none, Write
\* returns the n and the error of the buffer write, and the registered frame
\* sizes add up to the bytes written.
C16_FrameRegistration ==
    /\ conc.wpc = "match" =>
          /\ Len(written) = conc.fedBefore
          /\ registered = IF conc.n > 0 THEN Append(conc.regBefore, conc.n)
                          ELSE conc.regBefore
    /\ conc.wpc \in {"lock", "check", "insert", "unlock", "return"} =>
          registered = IF conc.n > 0 THEN Append(conc.regBefore, conc.n)
                       ELSE conc.regBefore
    /\ conc.wpc = "idle" =>
          /\ conc.ret = [n |-> conc.n, err |-> FALSE]
          /\ conc.n = Len(conc.p)
    /\ conc.wpc \notin {"register", "fatal"} => Sum(registered) = conc.btotal

\* a Write of two bytes and a Write of no bytes have both returned
C16_Witness ==
    /\ conc.wpc = "idle"
    /\ conc.n = 0
    /\ conc.btotal >= 2
    /\ Len(registered) >= 2
    /\ conc.fpc # "idle"

\* the stream in which the last flush started, with a destination that works
PreStream ==
    [buf     |-> [buffer |-> last.pre.buffer, currentIndex |-> last.pre.currentIndex],
     matches |-> last.pre.matches,
     dest    |-> last.pre.dest,
     plain   |-> <<>>,
     total   |-> last.pre.total,
     nw      |-> 0,
     failAt  |-> 0,
     err     |-> FALSE]

\* C17: a flush in which a destination write returns an error returns that
\* error at once: the failing call is the last destination write of the flush
\* and is made once, and what the calls before it wrote stays written.
C17_FlushErrors ==
    last.op = "flush" =>
        /\ last.err <=> (last.failAt > 0 /\ last.failAt <= flush(PreStream, last.n).nw)
        /\ last.err =>
              /\ last.nw = last.failAt
              /\ dest = SubSeq(flush(PreStream, last.n).dest, 1,
                               Len(last.pre.dest) + last.failAt - 1)

\* the write of the marker failed after the bytes before the match were written
C17_Witness ==
    /\ last.op = "flush"
    /\ last.err
    /\ last.failAt = 2
    /\ last.inLoop
    /\ Len(dest) = Len(last.pre.dest) + 1
    /\ Len(dest[Len(dest)]) > 0

\* C19: when a destination write fails while flush handles a match, the match
\* stays in the match map, its bytes stay in the buffer and the current index
\* is the match's start; no later flush sends a byte of that match to the
\* destination.
C19_FailedFlushNoLeak ==
    /\ (last.op = "flush" /\ last.inLoop) =>
          LET i == FailedMatch(StreamNow(0), last.pre.currentIndex)
          IN  /\ i \in DOMAIN matches
              /\ currentIndex = i
              /\ HeadOffset(StreamNow(0)) <= i
    /\ \A f \in failed :
          f.inLoop =>
              \A k \in (f.at + 1)..Len(plain) :
                  ~(f.i <= plain[k] /\ plain[k] < f.i + f.length)

\* C18: SecretsRead returns the values of the ReadSecret calls that returned
\* no error, one entry for each, in call order; a call that returned an error
\* leaves the list as it was.
C18_SecretsRead ==
    /\ SecretsRead(reader) = reader.succeeded
    /\ (reader.calls > 0 /\ reader.ret.err) => SecretsRead(reader) = reader.pre
    /\ (reader.calls > 0 /\ ~reader.ret.err) =>
          SecretsRead(reader) = Append(reader.pre, reader.ret.secret)

\* a failed call after two successful ones, the second with the same value
C18_Witness ==
    /\ reader.calls = 3
    /\ reader.ret.err
    /\ SecretsRead(reader) = <<"s1", "s1">>

\* C20 as stated: Keys().Create is called only after isAuthenticated was seen
\* to return true and Me() returned a user without PublicKey; with a PublicKey
\* the command returns ErrAccountAlreadyConnected or
\* ErrAccountAlreadyInitialized and creates no key; with --no-wait and an
\* unauthenticated client it returns nil, does not wait and creates no key.
C20_AsStated ==
    /\ acct.created => (acct.sawAuth # "none" /\ acct.meKey = "nil")
    /\ (acct.pc = "done" /\ "key" \in {acct.meKey, acct.runKey}) =>
          /\ acct.result \in {"ErrAccountAlreadyConnected",
                              "ErrAccountAlreadyInitialized"}
          /\ ~acct.created
    /\ (acct.pc = "done" /\ acct.noWait /\ acct.unauth) =>
          /\ acct.result = "nil"
          /\ ~acct.waited
          /\ ~acct.created

\* C20, amended: as stated, but with a PublicKey the command may also return
\* the error of Keys().Exists().
C20_KeyCreationGuard ==
    /\ acct.created => (acct.sawAuth # "none" /\ acct.meKey = "nil")
    /\ acct.pc \in {"import", "create"} => (acct.sawAuth # "none" /\ acct.meKey = "nil")
    /\ (acct.pc = "done" /\ "key" \in {acct.meKey, acct.runKey}) =>
          /\ acct.result \in {"ErrAccountAlreadyConnected",
                              "ErrAccountAlreadyInitialized", "errExists"}
          /\ ~acct.created
    /\ (acct.pc = "done" /\ acct.noWait /\ acct.unauth) =>
          /\ acct.result = "nil"
          /\ ~acct.waited
          /\ ~acct.created

\* the key was created after the wait had seen the credential added
C20_Witness ==
    /\ acct.pc = "done"
    /\ acct.created
    /\ acct.sawAuth = "wait"
    /\ acct.meKey = "nil"
    /\ acct.result = "nil"

\* Run may write the new credential: it was called without --continue, and no
\* credential existed, or one existed that did not authenticate and --force
\* was set or the user confirmed the overwrite
MayOverwrite ==
    /\ ~acct.isContinue
    /\ \/ ~acct.exists
       \/ /\ acct.runAuth = "false"
          /\ acct.force \/ acct.asked = "yes"

\* C21: Run writes, or is about to write, a new credential only when
\* MayOverwrite holds; when the existing credential authenticates, or the
\* question cannot be asked or is answered no, Run has returned or goes on
\* without having written a credential.
C21_OverwriteGuard ==
    /\ (acct.wrote \/ acct.pc = "runWrite") => MayOverwrite
    /\ (acct.runAuth = "true" \/ acct.asked \in {"ErrCannotAsk", "no"}) =>
          /\ ~acct.wrote
          /\ acct.pc \notin {"runPassphrase", "runCreate", "runWrite", "runOutput"}
    /\ (acct.asked \in {"ErrCannotAsk", "no"}) => acct.pc = "done"

\* an existing credential that does not authenticate was overwritten after the
\* user had confirmed it
C21_Witness ==
    /\ acct.wrote
    /\ acct.exists
    /\ ~acct.force
    /\ acct.runAuth = "false"
    /\ acct.asked = "yes"

\* C22: the goroutine of waitForCredentialToBeAdded sends at most once in
\* total, on c or on errc, and has left its loop once it has sent; whenever it
\* is about to send, the channel has room, also after createAccountKey has
\* returned; the select of createAccountKey takes exactly one case, and what
\* createAccountKey does next is that case: authenticated after a send on c,
\* the error that the goroutine sent on errc, or ErrAddCredentialTimeout.
C22_CredentialPolling ==
    /\ Len(acct.sent) <= 1
    /\ acct.sent # <<>> => acct.gpc = "done"
    /\ acct.gpc = "done" => Len(acct.sent) = 1
    /\ acct.gpc = "sendErr" => Len(acct.errc) < ChanCap
    /\ acct.gpc = "sendAuthenticated" => Len(acct.c) < ChanCap
    /\ ~acct.waited =>
          (acct.gpc = "none" /\ acct.sent = <<>> /\ acct.resolved = <<>>)
    /\ (acct.waited /\ acct.pc = "wait") => acct.resolved = <<>>
    /\ (acct.waited /\ acct.pc # "wait") =>
          /\ Len(acct.resolved) = 1
          /\ acct.resolved[1] = "authenticated" =>
                (acct.sent = <<"c">> /\ acct.sawAuth = "wait")
          /\ acct.resolved[1] = "err" =>
                /\ acct.sent = <<"errc">>
                /\ acct.pc = "done"
                /\ acct.result = acct.gerr
                /\ acct.result \notin {"nil", "ErrSignatureNotVerified"}
          /\ acct.resolved[1] = "timeout" =>
                (acct.pc = "done" /\ acct.result = "ErrAddCredentialTimeout")

\* createAccountKey returned on the timeout and the goroutine sent after that
C22_Witness ==
    /\ acct.resolved = <<"timeout">>
    /\ acct.result = "ErrAddCredentialTimeout"
    /\ acct.gpc = "done"
    /\ Len(acct.sent) = 1
    /\ Len(acct.c) + Len(acct.errc) = 1

====
